---- MODULE Spec2Model ----
(***************************************************************************)
(* Character-level text generation notebook                                *)
(* (notebooks/6.1 - Text generation with RNN.ipynb).                       *)
(*                                                                         *)
(* The notebook is a linear script of cells that share the kernel's global *)
(* variables.  The model keeps those globals as variables, one action per  *)
(* cell, and the function generate() as a small process of its own (call,  *)
(* loop iterations, return or raise).                                      *)
(*                                                                         *)
(* Characters are their code points, strings are sequences of code points. *)
(* Python's 0-based positions are kept for every index the program itself  *)
(* stores (char_to_int values, int_to_char keys, indeces, next_index);     *)
(* Python lists and strings are TLA+ sequences, so element k of a Python   *)
(* list is element k+1 of the sequence.                                    *)
(*                                                                         *)
(* The Keras model is an external collaborator.  model.predict is any      *)
(* softmax output: a vector of V non-negative probabilities that sum to 1, *)
(* here numerators over the common denominator PredDenom, zeros allowed    *)
(* (a saturated softmax underflows to exact zeros).                        *)
(***************************************************************************)
EXTENDS Integers, Sequences, FiniteSets, TLC

\* ---------------------------------------------------------------- bounds

\* longest corpus of the full notebook run (Spec)
MaxCorpusLen == 2
\* longest corpus of the vocabulary cell run on its own (SpecVocab)
MaxVocabLen == 6
\* longest corpus of the data preparation cells run on their own (SpecData)
MaxDataLen == 5
\* largest window length tried for seq_length (the notebook uses 100)
MaxSeqLen == 2
\* longest seed handed to generate (longer than MaxSeqLen on purpose)
MaxSeedLen == 3
\* largest prediction_length handed to generate
MaxN == 2
\* common denominator of the probabilities the model returns
PredDenom == 2
\* longest probability vector handed to sample on its own (SpecSample)
MaxPreds == 3
\* number of epochs of the training loop that are followed (the notebook runs 50)
MaxEpochs == 2
\* longest corpus of the notebook run through its training loop (SpecEpoch)
MaxEpochCorpusLen == 3

\* ------------------------------------------------------------- constants

\* the character "a" looked up by the mapping test of the vocabulary cell
CharA == 97
\* the width of the recurrent layer, LSTM(128, ...)
LstmUnits == 128
\* the index looked up by the mapping test of the vocabulary cell
TestIndex == 25

\* characters a corpus or a seed is made of: "a" and "x"
Alphabet == {CharA, 120}

\* "zyx...cba": a corpus with 26 distinct characters, in descending order
Pangram == [k \in 1..26 |-> 123 - k]

\* temperatures as <<numerator, denominator>>: 0.5 and 1.2, the two values
\* the epoch loop passes to generate
Diversities == {<<1, 2>>, <<6, 5>>}

\* --------------------------------------------------------------- helpers

RECURSIVE SeqsUpTo(_, _)
\* all sequences over S of length at most n
SeqsUpTo(S, n) ==
    IF n = 0 THEN {<<>>}
    ELSE LET shorter == SeqsUpTo(S, n - 1)
         IN  shorter \cup {Append(s, c) : s \in {t \in shorter : Len(t) = n - 1}, c \in S}

\* Python's range(lo, hi) as a sequence of the 0-based values
Range(lo, hi) == [k \in 1..(IF hi > lo THEN hi - lo ELSE 0) |-> lo + k - 1]

\* Python's slice s[lo:hi] for 0 <= lo
Slice(s, lo, hi) == SubSeq(s, lo + 1, IF hi > Len(s) THEN Len(s) ELSE hi)

\* set(raw_text)
SetOf(s) == {s[k] : k \in 1..Len(s)}

Min(S) == CHOOSE m \in S : \A o \in S : m <= o

RECURSIVE SortedDescending(_)
\* variant: sorted(..., reverse=True)
SortedDescending(S) ==
    IF S = {} THEN <<>>
    ELSE LET m == CHOOSE e \in S : \A o \in S : o <= e
         IN  <<m>> \o SortedDescending(S \ {m})

RECURSIVE Sorted(_)
\* sorted(list(S)): the elements of S in ascending order
Sorted(S) == IF S = {} THEN <<>> ELSE <<Min(S)>> \o Sorted(S \ {Min(S)})

RECURSIVE Pow(_, _)
Pow(b, e) == IF e = 0 THEN 1 ELSE b * Pow(b, e - 1)

RECURSIVE SumTo(_, _)
\* f[0] + ... + f[n-1]
SumTo(f, n) == IF n = 0 THEN 0 ELSE f[n - 1] + SumTo(f, n - 1)

\* all permutations of a sequence, as sequences
Perms(s) ==
    {[k \in 1..Len(s) |-> s[f[k]]] :
        f \in {g \in [1..Len(s) -> 1..Len(s)] : \A a, b \in 1..Len(s) : a # b => g[a] # g[b]}}


\* ------------------------------------------------- the notebook's globals

VARIABLES
    raw_text,       \* the corpus, after cleaning and lower-casing
    pc,             \* the next notebook cell to run
    chars,          \* sorted distinct characters of the corpus
    n_vocab,        \* len(chars)
    char_to_int,    \* dict: character -> index
    int_to_char,    \* dict: index -> character
    cell_err,       \* the exception the last cell run ended with, or "none"
    seq_length,     \* window length
    inputs,         \* list of windows
    outputs,        \* list of target characters
    n_sequences,    \* len(inputs) when the windowing cell ran
    indeces,        \* the shuffled list of positions
    X,              \* one-hot windows: [shape, data]
    y,              \* one-hot targets: [shape, data]
    model           \* the compiled network: its input shape and output width

\* ----------------------------------------------- one call of generate()

VARIABLES
    gpc,                \* "idle", "loop", "sample", "returned", "raised"
    seed,               \* the argument the call was given as sentence
    sentence,           \* local: the rolling window
    generated,          \* local: the output buffer
    prediction_length,  \* argument
    diversity,          \* argument
    i,                  \* loop counter: completed iterations
    x,                  \* local: the encoded window of this iteration
    preds,              \* local: the distribution predict returned
    pred_log,           \* every distribution predict returned to this call, in order
    next_index,         \* local: the index sample returned
    stdout,             \* the text this call has sent to sys.stdout so far
    n_predict,          \* number of model.predict calls this call has made
    gen_err,            \* the exception that ended this call, or "none"
    retval,             \* what the call returned
    prev_err            \* gen_err of the call before this one ("nocall" if none)

\* ------------------------------------------------- the epoch loop (cell 23)

VARIABLES
    iteration,          \* loop variable of the epoch loop: epochs completed
    preview_length,     \* the global prediction_length the loop passes to generate
    start_index,        \* where the seed of this epoch starts in the corpus
    preview_seed,       \* the global seed: the seed of this epoch
    diversity_pos       \* how many of the diversities [0.5, 1.2] this epoch has started

loopvars == <<iteration, preview_length, start_index, preview_seed, diversity_pos>>

nbvars == <<raw_text, pc, chars, n_vocab, char_to_int, int_to_char, cell_err,
            seq_length, inputs, outputs, n_sequences, indeces, X, y, model>>

genvars == <<gpc, seed, sentence, generated, prediction_length, diversity, i, x,
             preds, pred_log, next_index, stdout, n_predict, gen_err, retval, prev_err>>

vars == <<nbvars, genvars, loopvars>>

\* n_chars = len(raw_text)
n_chars == Len(raw_text)

\* ------------------------------------------------------ vocabulary (cell 5)

\* chars = sorted(list(set(raw_text)))
Chars(text) == Sorted(SetOf(text))

\* dict((c, i) for i, c in enumerate(chars))
CharToInt(cs) ==
    [c \in SetOf(cs) |-> CHOOSE k \in 0..(Len(cs) - 1) :
                            /\ cs[k + 1] = c
                            /\ \A m \in 0..(Len(cs) - 1) : cs[m + 1] = c => m <= k]

\* dict((i, c) for i, c in enumerate(chars))
IntToChar(cs) == [k \in 0..(Len(cs) - 1) |-> cs[k + 1]]

\* print(... char_to_int["a"]); print(... int_to_char[25])
MappingTest(c2i, i2c) ==
    IF CharA \notin DOMAIN c2i THEN "KeyError"
    ELSE IF TestIndex \notin DOMAIN i2c THEN "KeyError"
    ELSE "none"

\* The assignments come before the two test prints, so the vocabulary is in
\* the kernel whether or not the test raises; later cells can still be run.
Cell5 ==
    /\ pc = "cell5"
    /\ chars' = Chars(raw_text)
    /\ n_vocab' = Len(chars')
    /\ char_to_int' = CharToInt(chars')
    /\ int_to_char' = IntToChar(chars')
    /\ cell_err' = MappingTest(char_to_int', int_to_char')
    /\ pc' = "cell7"
    /\ UNCHANGED <<raw_text, seq_length, inputs, outputs, n_sequences, indeces, X, y, model>>
    /\ UNCHANGED genvars
    /\ UNCHANGED loopvars

\* ------------------------------------------------------- windowing (cell 7)

\* the loop of cell 7: inputs.append(raw_text[i:i + seq_length])
Windows(text, L) ==
    LET r == Range(0, Len(text) - L)
    IN  [k \in DOMAIN r |-> Slice(text, r[k], r[k] + L)]

\* variant: the target taken one position early, raw_text[i + seq_length - 1]
TargetsInsideWindow(text, L) ==
    LET r == Range(0, Len(text) - L)
    IN  [k \in DOMAIN r |-> text[r[k] + L]]

\* the loop of cell 7: outputs.append(raw_text[i + seq_length])
Targets(text, L) ==
    LET r == Range(0, Len(text) - L)
    IN  [k \in DOMAIN r |-> text[r[k] + L + 1]]

\* seq_length is 100 in the notebook; the model tries every length up to MaxSeqLen
Cell7 ==
    /\ pc = "cell7"
    /\ \E L \in 1..MaxSeqLen :
        /\ seq_length' = L
        /\ inputs' = Windows(raw_text, L)
        /\ outputs' = Targets(raw_text, L)
    /\ n_sequences' = Len(inputs')
    /\ pc' = "cell9"
    /\ cell_err' = "none"
    /\ UNCHANGED <<raw_text, chars, n_vocab, char_to_int, int_to_char, indeces, X, y, model>>
    /\ UNCHANGED genvars
    /\ UNCHANGED loopvars

\* --------------------------------------------------------- shuffle (cell 9)

\* [lst[x] for x in idx]
Pick(lst, idx) == [k \in DOMAIN idx |-> lst[idx[k] + 1]]

\* random.shuffle leaves the list in any order
Cell9 ==
    /\ pc = "cell9"
    /\ \E p \in Perms(Range(0, Len(inputs))) :
        /\ indeces' = p
        /\ inputs' = Pick(inputs, p)
        /\ outputs' = Pick(outputs, p)
    /\ pc' = "cell13"
    /\ cell_err' = "none"
    /\ UNCHANGED <<raw_text, chars, n_vocab, char_to_int, int_to_char,
                   seq_length, n_sequences, X, y, model>>
    /\ UNCHANGED genvars
    /\ UNCHANGED loopvars

\* ------------------------------------------------------- one-hot (cell 13)

\* X = np.zeros((n_sequences, seq_length, n_vocab)); X[i, t, char_to_int[char]] = 1
EncodeX(ins, n, L, V, c2i) ==
    [shape |-> <<n, L, V>>,
     data  |-> [s \in 1..n |-> [t \in 0..(L - 1) |-> [v \in 0..(V - 1) |->
                    c2i[ins[s][t + 1]] = v]]]]

\* y = np.zeros((n_sequences, n_vocab)); y[i, char_to_int[outputs[i]]] = 1
EncodeY(outs, n, V, c2i) ==
    [shape |-> <<n, V>>,
     data  |-> [s \in 1..n |-> [v \in 0..(V - 1) |-> c2i[outs[s]] = v]]]

Cell13 ==
    /\ pc = "cell13"
    /\ X' = EncodeX(inputs, n_sequences, seq_length, n_vocab, char_to_int)
    /\ y' = EncodeY(outputs, n_sequences, n_vocab, char_to_int)
    /\ pc' = "cell15"
    /\ cell_err' = "none"
    /\ UNCHANGED <<raw_text, chars, n_vocab, char_to_int, int_to_char,
                   seq_length, inputs, outputs, n_sequences, indeces, model>>
    /\ UNCHANGED genvars
    /\ UNCHANGED loopvars

\* ------------------------------------------------------ the model (cell 15)

\* LSTM(..., input_shape=(X.shape[1], X.shape[2])), Dense(y.shape[1], softmax),
\* compile(...).  units is the width of the last layer added.
\* The cell has no test of its own: it is run for every corpus, the empty one
\* included, where the output layer is Dense(0).
Cell15 ==
    /\ pc = "cell15"
    /\ model' = [input_shape |-> <<X.shape[2], X.shape[3]>>, units |-> y.shape[2],
                 compiled |-> TRUE]
    /\ pc' = "ready"
    /\ cell_err' = "none"
    /\ UNCHANGED <<raw_text, chars, n_vocab, char_to_int, int_to_char,
                   seq_length, inputs, outputs, n_sequences, indeces, X, y>>
    /\ UNCHANGED genvars
    /\ UNCHANGED loopvars

\* Dense(0): whether the layer is accepted is decided inside Keras and differs
\* between its releases (the later ones require a positive number of units
\* and raise ValueError from the constructor), so both outcomes are kept.
\* The exception ends the cell at model.add(Dense(...)): model is by then
\* bound to a Sequential that holds the LSTM and the Dropout layer, and it is
\* not compiled.  As after any failed cell, the cells below can still be run.
Cell15Raise ==
    /\ pc = "cell15"
    /\ y.shape[2] = 0
    /\ model' = [input_shape |-> <<X.shape[2], X.shape[3]>>, units |-> LstmUnits,
                 compiled |-> FALSE]
    /\ cell_err' = "ValueError"
    /\ pc' = "ready"
    /\ UNCHANGED <<raw_text, chars, n_vocab, char_to_int, int_to_char,
                   seq_length, inputs, outputs, n_sequences, indeces, X, y>>
    /\ UNCHANGED genvars
    /\ UNCHANGED loopvars

\* --------------------------------------------------------- sample (cell 19)

\* variant: probabilities clamped away from zero before the logarithm
ExpPredsClamped(p, t) == [k \in DOMAIN p |-> IF p[k] = 0 THEN 1 ELSE Pow(p[k], t[2])]

\* exp(log(preds) / temperature), entry by entry.  np.log(0) is -inf (a
\* warning, not an exception) and np.exp(-inf) is 0, so a zero stays zero.
\* A positive p becomes p^(1/temperature) = p^(den/num); the model keeps its
\* num-th power p^den, a positive integer: the draw below depends on the
\* weights only through which of them are zero.
ExpPreds(p, t) == [k \in DOMAIN p |-> IF p[k] = 0 THEN 0 ELSE Pow(p[k], t[2])]

\* np.random.multinomial(1, pvals, 1): one draw, as a one-hot vector; the
\* drawn entry is one of positive probability exp_preds[k] / sum(exp_preds)
Multinomial(w) ==
    {[k \in DOMAIN w |-> IF k = j THEN 1 ELSE 0] : j \in {k \in DOMAIN w : w[k] > 0}}

\* variant: np.argmin in place of np.argmax
ArgMin(v) == Min({k \in DOMAIN v : \A m \in DOMAIN v : v[k] <= v[m]})

\* np.argmax: the first position of the largest entry
ArgMax(v) == Min({k \in DOMAIN v : \A m \in DOMAIN v : v[m] <= v[k]})

\* the indices sample(preds, temperature) can return
sample(p, t) == {ArgMax(probas) : probas \in Multinomial(ExpPreds(p, t))}

\* ------------------------------------------------------- generate (cell 21)

\* what model.predict can return for an encoded window: any softmax output of
\* the network's width, as numerators over PredDenom.  A network of width 0
\* has one output, the empty vector.  The network left without its output
\* layer (Cell15Raise) returns what its LSTM layer gives: its input has width
\* 0, its state starts at 0 and it cannot be trained (fit needs compile), so
\* the cell state c = f * 0 + i * tanh(0) stays 0 and so does every output.
Predict(m, xx) ==
    IF m.compiled
    THEN {p \in [0..(m.units - 1) -> 0..PredDenom] :
            SumTo(p, m.units) = IF m.units = 0 THEN 0 ELSE PredDenom}
    ELSE {[k \in 0..(m.units - 1) |-> 0]}

\* variant: characters without an index are skipped instead of looked up
EncodeFaultsAxisOnly(sent, shape, c2i) ==
    {t \in 0..(Len(sent) - 1) : t >= shape[2]}

\* the positions t of the encoding loop at which x[0, t, char_to_int[char]] = 1.
\* cannot be carried out: the character has no index, or t is beyond the
\* window axis of x
EncodeFaults(sent, shape, c2i) ==
    {t \in 0..(Len(sent) - 1) : sent[t + 1] \notin DOMAIN c2i \/ t >= shape[2]}

\* the exception the encoding loop raises, at its first faulty position: the
\* subscript char_to_int[char] is evaluated before the store into x
EncodeError(sent, shape, c2i) ==
    IF EncodeFaults(sent, shape, c2i) = {} THEN "none"
    ELSE IF sent[Min(EncodeFaults(sent, shape, c2i)) + 1] \notin DOMAIN c2i THEN "KeyError"
    ELSE "IndexError"

\* variant: every row marks the first character, x[0, t, char_to_int[sentence[0]]] = 1.
EncodeWindowFirstChar(sent, shape, c2i) ==
    [t \in 0..(shape[2] - 1) |-> [v \in 0..(shape[3] - 1) |->
        IF t < Len(sent) /\ sent[1] \in DOMAIN c2i /\ c2i[sent[1]] = v
        THEN 1 ELSE 0]]

\* x = np.zeros((1, X.shape[1], X.shape[2])); x[0, t, char_to_int[char]] = 1.
EncodeWindow(sent, shape, c2i) ==
    [t \in 0..(shape[2] - 1) |-> [v \in 0..(shape[3] - 1) |->
        IF t < Len(sent) /\ sent[t + 1] \in DOMAIN c2i /\ c2i[sent[t + 1]] = v
        THEN 1 ELSE 0]]

\* variant: the window grows, sentence + next_char
SlideKeepFirst(sent, c) == sent \o <<c>>

\* sentence[1:] + next_char
Slide(sent, c) == Slice(sent, 1, Len(sent)) \o <<c>>

\* Python's None and a returned string, as one shape of value
None == [is_none |-> TRUE, value |-> <<>>]

\* str(diversity) for a temperature with one decimal digit, below 10
FloatStr(d) ==
    LET tenths == (10 * d[1]) \div d[2]
    IN  <<48 + (tenths \div 10), 46, 48 + (tenths % 10)>>

\* the line print('----- diversity:', diversity) writes:
\* "----- diversity: " + str(diversity) + "\n"
HeaderText(d) ==
    <<45, 45, 45, 45, 45, 32, 100, 105, 118, 101, 114, 115, 105, 116, 121, 58, 32>>
        \o FloatStr(d) \o <<10>>

\* variant: the text is held back instead of written
StdoutWriteHeld(out, s) == out

\* sys.stdout.write(s): the stream with s at its end
StdoutWrite(out, s) == out \o s

\* generated += next_char
Extend(buf, c) == buf \o <<c>>

\* def generate(sentence, prediction_length, diversity), up to the loop.
\* stdout is followed from the start of each call.
GenerateCall ==
    /\ pc = "ready"
    /\ gpc = "idle"
    /\ \E s \in SeqsUpTo(Alphabet, MaxSeedLen), N \in 0..MaxN, d \in Diversities :
        /\ seed' = s
        /\ sentence' = s
        /\ prediction_length' = N
        /\ diversity' = d
        /\ generated' = s
        /\ stdout' = StdoutWrite(HeaderText(d), s)
    /\ i' = 0
    /\ gpc' = "loop"
    /\ UNCHANGED <<x, preds, pred_log, next_index, n_predict, gen_err, retval, prev_err>>
    /\ UNCHANGED nbvars
    /\ UNCHANGED loopvars

\* one iteration, first half: build x from sentence and ask the model
GenPredict ==
    /\ gpc = "loop"
    /\ i < prediction_length
    /\ EncodeError(sentence, X.shape, char_to_int) = "none"
    /\ x' = EncodeWindow(sentence, X.shape, char_to_int)
    /\ \E p \in Predict(model, x') :
        /\ preds' = p
        /\ pred_log' = Append(pred_log, p)
    /\ n_predict' = n_predict + 1
    /\ gpc' = "sample"
    /\ UNCHANGED <<seed, sentence, generated, prediction_length, diversity, i,
                   next_index, stdout, gen_err, retval, prev_err>>
    /\ UNCHANGED nbvars
    /\ UNCHANGED loopvars

\* one iteration, first half, when the encoding loop raises: x is the zero
\* array with the characters before the faulty position marked, and the
\* exception leaves generate; nothing catches it
GenEncodeRaise ==
    /\ gpc = "loop"
    /\ i < prediction_length
    /\ EncodeError(sentence, X.shape, char_to_int) # "none"
    /\ x' = EncodeWindow(Slice(sentence, 0, Min(EncodeFaults(sentence, X.shape, char_to_int))),
                         X.shape, char_to_int)
    /\ gen_err' = EncodeError(sentence, X.shape, char_to_int)
    /\ gpc' = "raised"
    /\ UNCHANGED <<seed, sentence, generated, prediction_length, diversity, i,
                   preds, pred_log, next_index, stdout, n_predict, retval, prev_err>>
    /\ UNCHANGED nbvars
    /\ UNCHANGED loopvars

\* one iteration, second half: sample, append, slide the window, write
GenEmit ==
    /\ gpc = "sample"
    /\ \E k \in sample(preds, diversity) :
        /\ k \in DOMAIN int_to_char
        /\ next_index' = k
        /\ generated' = Extend(generated, int_to_char[k])
        /\ sentence' = Slide(sentence, int_to_char[k])
        /\ stdout' = StdoutWrite(stdout, <<int_to_char[k]>>)
    /\ i' = i + 1
    /\ gpc' = "loop"
    /\ UNCHANGED <<seed, prediction_length, diversity, x, preds, pred_log, n_predict,
                   gen_err, retval, prev_err>>
    /\ UNCHANGED nbvars
    /\ UNCHANGED loopvars

\* one iteration, second half, when it raises.  sample has nothing to draw
\* from: preds is empty (or without a positive entry), and
\* np.random.multinomial or the np.argmax after it raises ValueError.  Or the
\* index drawn is not a key of int_to_char: next_index is bound and
\* int_to_char[next_index] raises KeyError.  The exception leaves generate.
GenSampleRaise ==
    /\ gpc = "sample"
    /\ \/ /\ sample(preds, diversity) = {}
          /\ gen_err' = "ValueError"
          /\ next_index' = next_index
       \/ \E k \in sample(preds, diversity) :
            /\ k \notin DOMAIN int_to_char
            /\ gen_err' = "KeyError"
            /\ next_index' = k
    /\ gpc' = "raised"
    /\ UNCHANGED <<seed, sentence, generated, prediction_length, diversity, i, x,
                   preds, pred_log, stdout, n_predict, retval, prev_err>>
    /\ UNCHANGED nbvars
    /\ UNCHANGED loopvars

\* the loop is over: print() and fall off the end of the function, which
\* returns None.  The locals keep their last values for inspection.
GenReturn ==
    /\ gpc = "loop"
    /\ i >= prediction_length
    /\ stdout' = stdout \o <<10>>
    /\ retval' = None
    /\ gpc' = "returned"
    /\ UNCHANGED <<seed, sentence, generated, prediction_length, diversity, i, x,
                   preds, pred_log, next_index, n_predict, gen_err, prev_err>>
    /\ UNCHANGED nbvars
    /\ UNCHANGED loopvars

\* The call is over, by return or by exception, and whoever called generate
\* goes on (the calls of the notebook keep no result).  The frame and its
\* locals are gone; only how the call ended is remembered, in prev_err.
CallerResumes ==
    /\ gpc \in {"returned", "raised"}
    /\ prev_err' = gen_err
    /\ gen_err' = "none"
    /\ gpc' = "idle"
    /\ seed' = <<>>
    /\ sentence' = <<>>
    /\ generated' = <<>>
    /\ prediction_length' = 0
    /\ diversity' = <<1, 1>>
    /\ i' = 0
    /\ x' = <<>>
    /\ preds' = <<>>
    /\ pred_log' = <<>>
    /\ next_index' = -1
    /\ stdout' = <<>>
    /\ n_predict' = 0
    /\ retval' = None
    /\ UNCHANGED nbvars
    /\ UNCHANGED loopvars

\* ------------------------------------------------- the epoch loop (cell 23)

\* for diversity in [0.5, 1.2]
DiversityList == <<<<1, 2>>, <<6, 5>>>>

\* variant: the upper end one too far, random.randint(a, b + 1)
RandIntPastEnd(a, b) == a..(b + 1)

\* the values random.randint(a, b) can return: a <= N <= b
RandInt(a, b) == a..b

\* epochs = 50; prediction_length = 100; the loop is entered.  The notebook
\* runs the cell right after the definitions, before any other generate call;
\* every prediction length from 1 to MaxN stands for the 100 of the notebook.
Cell23 ==
    /\ pc = "ready"
    /\ gpc = "idle"
    /\ prev_err = "nocall"
    /\ \E N \in 1..MaxN : preview_length' = N
    /\ iteration' = 0
    /\ pc' = "fit"
    /\ cell_err' = "none"
    /\ UNCHANGED <<start_index, preview_seed, diversity_pos>>
    /\ UNCHANGED <<raw_text, chars, n_vocab, char_to_int, int_to_char,
                   seq_length, inputs, outputs, n_sequences, indeces, X, y, model>>
    /\ UNCHANGED genvars

\* One epoch, up to the seed: model.fit trains the network (its weights are
\* not part of the model: predict may return any distribution before and
\* after), then a start position is drawn and the seed is cut from the corpus.
EpochFit ==
    /\ pc = "fit"
    /\ iteration < MaxEpochs
    /\ model.compiled
    /\ Len(raw_text) - seq_length - 1 >= 0
    /\ \E k \in RandInt(0, Len(raw_text) - seq_length - 1) :
        /\ start_index' = k
        /\ preview_seed' = Slice(raw_text, k, k + seq_length)
    /\ diversity_pos' = 0
    /\ pc' = "preview"
    /\ UNCHANGED <<iteration, preview_length>>
    /\ UNCHANGED <<raw_text, chars, n_vocab, char_to_int, int_to_char, cell_err,
                   seq_length, inputs, outputs, n_sequences, indeces, X, y, model>>
    /\ UNCHANGED genvars

\* One epoch that fails.  model.fit on a model that was never compiled
\* raises RuntimeError.  When the corpus is no longer than the window: if
\* model.fit gets through its empty training set at all, random.randint has
\* an empty range and raises ValueError.  The cell ends there.
EpochFitRaise ==
    /\ pc = "fit"
    /\ iteration < MaxEpochs
    /\ ~model.compiled \/ Len(raw_text) - seq_length - 1 < 0
    /\ cell_err' = IF model.compiled THEN "ValueError" ELSE "RuntimeError"
    /\ pc' = "cell23_raised"
    /\ UNCHANGED <<raw_text, chars, n_vocab, char_to_int, int_to_char,
                   seq_length, inputs, outputs, n_sequences, indeces, X, y, model>>
    /\ UNCHANGED genvars
    /\ UNCHANGED loopvars

\* generate(seed, prediction_length, diversity) for the next diversity of the
\* list: the entry of generate, as in GenerateCall.  An exception of the
\* call before would have left the loop, so the next call needs it to have
\* returned.
EpochGenerate ==
    /\ pc = "preview"
    /\ gpc = "idle"
    /\ diversity_pos < Len(DiversityList)
    /\ diversity_pos >= 1 => prev_err = "none"
    /\ seed' = preview_seed
    /\ sentence' = preview_seed
    /\ prediction_length' = preview_length
    /\ diversity' = DiversityList[diversity_pos + 1]
    /\ generated' = preview_seed
    /\ stdout' = StdoutWrite(HeaderText(DiversityList[diversity_pos + 1]), preview_seed)
    /\ i' = 0
    /\ gpc' = "loop"
    /\ diversity_pos' = diversity_pos + 1
    /\ UNCHANGED <<x, preds, pred_log, next_index, n_predict, gen_err, retval, prev_err>>
    /\ UNCHANGED <<iteration, preview_length, start_index, preview_seed>>
    /\ UNCHANGED nbvars

\* both diversities are done: the next epoch
EpochNext ==
    /\ pc = "preview"
    /\ gpc = "idle"
    /\ diversity_pos = Len(DiversityList)
    /\ prev_err = "none"
    /\ iteration' = iteration + 1
    /\ pc' = "fit"
    /\ UNCHANGED <<preview_length, start_index, preview_seed, diversity_pos>>
    /\ UNCHANGED <<raw_text, chars, n_vocab, char_to_int, int_to_char, cell_err,
                   seq_length, inputs, outputs, n_sequences, indeces, X, y, model>>
    /\ UNCHANGED genvars

\* ---------------------------------------------------------- specifications

\* the kernel after the corpus is loaded (cell 3), nothing else defined yet
InitWith(corpora, start, vectors, temperatures) ==
    /\ raw_text \in corpora
    /\ pc = start
    /\ chars = <<>>
    /\ n_vocab = 0
    /\ char_to_int = <<>>
    /\ int_to_char = <<>>
    /\ cell_err = "none"
    /\ seq_length = 0
    /\ inputs = <<>>
    /\ outputs = <<>>
    /\ n_sequences = 0
    /\ indeces = <<>>
    /\ X = [shape |-> <<0, 0, 0>>, data |-> <<>>]
    /\ y = [shape |-> <<0, 0>>, data |-> <<>>]
    /\ model = [input_shape |-> <<0, 0>>, units |-> 0, compiled |-> FALSE]
    /\ gpc = "idle"
    /\ seed = <<>>
    /\ sentence = <<>>
    /\ generated = <<>>
    /\ prediction_length = 0
    /\ diversity \in temperatures
    /\ i = 0
    /\ x = <<>>
    /\ preds \in vectors
    /\ pred_log = <<>>
    /\ next_index = -1
    /\ stdout = <<>>
    /\ n_predict = 0
    /\ gen_err = "none"
    /\ retval = None
    /\ prev_err = "nocall"
    /\ iteration = 0
    /\ preview_length = 0
    /\ start_index = 0
    /\ preview_seed = <<>>
    /\ diversity_pos = 0

\* the whole notebook, followed by any number of generate calls
Init == InitWith(SeqsUpTo(Alphabet, MaxCorpusLen), "cell5", {<<>>}, {<<1, 1>>})

Next ==
    \/ Cell5
    \/ Cell7
    \/ Cell9
    \/ Cell13
    \/ Cell15
    \/ Cell15Raise
    \/ GenerateCall
    \/ GenPredict
    \/ GenEncodeRaise
    \/ GenEmit
    \/ GenSampleRaise
    \/ GenReturn
    \/ CallerResumes
    \/ Cell23
    \/ EpochFit
    \/ EpochFitRaise
    \/ EpochGenerate
    \/ EpochNext

Spec == Init /\ [][Next]_vars

\* The notebook as it is run: every cell in order, then the training loop with
\* its generate calls, on longer corpora.  The loop hands generate only seeds
\* cut from the corpus, so the calls with arbitrary seeds (GenerateCall) and
\* the steps they alone can reach (GenEncodeRaise, GenSampleRaise) belong to
\* Spec.
InitEpoch == InitWith(SeqsUpTo(Alphabet, MaxEpochCorpusLen), "cell5", {<<>>}, {<<1, 1>>})

NextEpoch ==
    \/ Cell5
    \/ Cell7
    \/ Cell9
    \/ Cell13
    \/ Cell15
    \/ Cell15Raise
    \/ Cell23
    \/ EpochFit
    \/ EpochFitRaise
    \/ EpochGenerate
    \/ GenPredict
    \/ GenEmit
    \/ GenReturn
    \/ CallerResumes
    \/ EpochNext

SpecEpoch == InitEpoch /\ [][NextEpoch]_vars

\* the vocabulary cell alone, on more corpora
InitVocab ==
    InitWith(SeqsUpTo(Alphabet, MaxVocabLen) \cup {Pangram}, "cell5", {<<>>}, {<<1, 1>>})

NextVocab == Cell5

SpecVocab == InitVocab /\ [][NextVocab]_vars

\* the data preparation cells alone, on longer corpora
InitData == InitWith(SeqsUpTo(Alphabet, MaxDataLen), "cell5", {<<>>}, {<<1, 1>>})

NextData ==
    \/ Cell5
    \/ Cell7
    \/ Cell9
    \/ Cell13

SpecData == InitData /\ [][NextData]_vars

\* sample() on its own: any vector of non-negative weights, of any length up
\* to MaxPreds, that is not zero everywhere (sum(exp_preds) = 0 would make
\* every probability NaN; a softmax output always has a positive entry)
PredVectors ==
    UNION {{p \in [0..(V - 1) -> 0..PredDenom] : SumTo(p, V) >= 1} : V \in 1..MaxPreds}

InitSample == InitWith({<<>>}, "sample", PredVectors, Diversities)

\* next_index = sample(preds, diversity)
SampleCall ==
    /\ pc = "sample"
    /\ \E k \in sample(preds, diversity) : next_index' = k
    /\ pc' = "sampled"
    /\ UNCHANGED <<raw_text, chars, n_vocab, char_to_int, int_to_char, cell_err,
                   seq_length, inputs, outputs, n_sequences, indeces, X, y, model>>
    /\ UNCHANGED <<gpc, seed, sentence, generated, prediction_length, diversity, i, x,
                   preds, pred_log, stdout, n_predict, gen_err, retval, prev_err>>
    /\ UNCHANGED loopvars

NextSample == SampleCall

SpecSample == InitSample /\ [][NextSample]_vars

\* ------------------------------------------------------------- properties

\* every character of s has an index in the vocabulary
InVocabulary(s) == \A k \in 1..Len(s) : s[k] \in DOMAIN char_to_int

\* p is the distribution concentrated on index c: 1 at c, 0 elsewhere
Concentrated(p, c) ==
    /\ c \in DOMAIN p
    /\ p[c] = PredDenom
    /\ \A k \in DOMAIN p : k # c => p[k] = 0

\* the part of the output buffer after the seed
Suffix == SubSeq(generated, Len(seed) + 1, Len(generated))

\* the text written to stdout after the header line
AfterHeader == SubSeq(stdout, Len(HeaderText(diversity)) + 1, Len(stdout))

\* the last n elements of s
LastN(s, n) == SubSeq(s, Len(s) - n + 1, Len(s))

\* C1: whenever generate returns, the output buffer has length len(seed) + N,
\* starts with the seed, and is the value returned to the caller; for N = 0
\* the value returned is the seed itself.
C1_ReturnsBuffer ==
    gpc = "returned" =>
        /\ Len(generated) = Len(seed) + prediction_length
        /\ SubSeq(generated, 1, Len(seed)) = seed
        /\ retval = [is_none |-> FALSE, value |-> generated]
        /\ (prediction_length = 0 => retval = [is_none |-> FALSE, value |-> seed])

\* C2: for a seed of length L over the vocabulary, if every distribution the
\* model returned during the call was concentrated on the index of one
\* character c, the characters appended after the seed are c repeated, once
\* per completed step: N times when the call returns.
C2_ConcentratedSuffix ==
    \A c \in DOMAIN int_to_char :
        ( /\ gpc \in {"loop", "sample", "returned"}
          /\ Len(seed) = seq_length
          /\ InVocabulary(seed)
          /\ \A k \in DOMAIN pred_log : Concentrated(pred_log[k], c) )
        => /\ Suffix = [k \in 1..i |-> int_to_char[c]]
           /\ (gpc = "returned" => i = prediction_length)

C2_Witness ==
    /\ gpc = "returned"
    /\ prediction_length >= 2
    /\ n_vocab >= 2
    /\ seq_length >= 2
    /\ Len(seed) = seq_length
    /\ InVocabulary(seed)
    /\ Len(pred_log) = prediction_length
    /\ \E c \in DOMAIN int_to_char :
        /\ \A k \in DOMAIN pred_log : Concentrated(pred_log[k], c)
        /\ \A k \in 1..Len(seed) : seed[k] # int_to_char[c]
        /\ Suffix = [k \in 1..prediction_length |-> int_to_char[c]]

\* C3: started with a seed of exactly L characters, at the start of the call
\* and after every completed step sentence has length L and is the last L
\* characters of generated, its last character being the one just generated.
C3_RollingWindow ==
    ( /\ gpc \in {"loop", "sample", "returned", "raised"}
      /\ Len(seed) = seq_length )
    => /\ Len(sentence) = seq_length
       /\ sentence = LastN(generated, seq_length)
       /\ (i >= 1 => sentence[seq_length] = int_to_char[next_index])

C3_Witness ==
    /\ gpc = "loop"
    /\ i >= 2
    /\ seq_length >= 2
    /\ Len(seed) = seq_length
    /\ InVocabulary(seed)
    /\ sentence # seed
    /\ sentence = LastN(generated, seq_length)

\* C4, as stated: after every completed step the text written so far is the
\* output buffer.
C4_WrittenIsBuffer ==
    (gpc = "loop" /\ i >= 1) => stdout = generated

\* C4, amended: the header line is written first and the seed right after it;
\* the k-th generated character is written in the k-th step, before the
\* (k+1)-th prediction is requested; after every completed step the text
\* written after the header line is the output buffer.  A step is under way,
\* its prediction made and its character not yet written, in "sample" and
\* after an exception raised by sample.
C4_StreamedInOrder ==
    gpc \in {"loop", "sample", "raised"} =>
        /\ SubSeq(stdout, 1, Len(HeaderText(diversity))) = HeaderText(diversity)
        /\ AfterHeader = generated
        /\ SubSeq(AfterHeader, 1, Len(seed)) = seed
        /\ Len(AfterHeader) = Len(seed) + i
        /\ n_predict = (IF gpc = "sample" \/ (gpc = "raised" /\ gen_err = "ValueError")
                        THEN i + 1 ELSE i)

C4_Witness ==
    /\ gpc = "sample"
    /\ i >= 1
    /\ n_predict = i + 1
    /\ Len(seed) >= 1
    /\ AfterHeader = generated
    /\ Len(generated) = Len(seed) + i

\* C5: a call whose seed holds a character outside the vocabulary, with at
\* least one step to run, never gets past the encoding of its first step: no
\* prediction is requested and no step completes, and the exception ends the
\* call.  The vocabulary mappings and the model stay what the cells built,
\* and a call made after a failed one, with a seed that fits, never raises
\* and returns after all its steps.  The one other exception of generate, the
\* ValueError of sample, has nothing to do with an earlier call: it is raised
\* when the vocabulary is empty, and only then.
C5_UnknownCharacterFatal ==
    /\ ( /\ gpc # "idle"
         /\ ~InVocabulary(seed)
         /\ prediction_length >= 1 )
       => /\ gpc \in {"loop", "raised"}
          /\ n_predict = 0
          /\ i = 0
          /\ generated = seed
          /\ (gpc = "raised" => gen_err \in {"KeyError", "IndexError"})
    /\ gpc = "raised" =>
          /\ gen_err \in {"KeyError", "IndexError", "ValueError"}
          /\ i = 0
          /\ gen_err \in {"KeyError", "IndexError"} => n_predict = 0
          /\ gen_err = "ValueError" => (n_vocab = 0 /\ seed = <<>>)
    /\ pc = "ready" =>
          /\ char_to_int = CharToInt(Chars(raw_text))
          /\ int_to_char = IntToChar(Chars(raw_text))
          /\ model = IF cell_err = "none"
                     THEN [input_shape |-> <<seq_length, n_vocab>>, units |-> n_vocab,
                           compiled |-> TRUE]
                     ELSE [input_shape |-> <<seq_length, n_vocab>>, units |-> LstmUnits,
                           compiled |-> FALSE]
          /\ cell_err # "none" => n_vocab = 0
    /\ ( /\ prev_err \in {"KeyError", "IndexError"}
         /\ gpc # "idle"
         /\ InVocabulary(seed)
         /\ Len(seed) <= seq_length
         /\ n_vocab >= 1 )
       => /\ gpc # "raised"
          /\ gen_err = "none"
          /\ (gpc = "returned" => i = prediction_length /\ n_predict = prediction_length)

C5_Witness ==
    /\ prev_err = "KeyError"
    /\ gpc = "returned"
    /\ InVocabulary(seed)
    /\ Len(seed) = seq_length
    /\ prediction_length >= 2
    /\ n_predict = prediction_length
    /\ Len(generated) = Len(seed) + prediction_length

\* C6: sample returns an index of the vector, never one whose entry is 0; for
\* a vector with one entry equal to 1 and every other entry 0 it returns the
\* index of that entry.
C6_SampleSupport ==
    pc = "sampled" =>
        /\ next_index \in DOMAIN preds
        /\ preds[next_index] # 0
        /\ \A c \in DOMAIN preds : Concentrated(preds, c) => next_index = c

C6_Witness ==
    /\ pc = "sampled"
    /\ \E c \in DOMAIN preds :
        /\ c >= 1
        /\ Concentrated(preds, c)
        /\ next_index = c
        /\ c + 1 \in DOMAIN preds

\* C7: for a corpus longer than L, after the windowing loop and the shuffle
\* there are n - L pairs, indeces is a permutation of 0..n-L-1, and the pair
\* at position k is the window starting at indeces[k] with the character that
\* follows that window.
C7_ShuffledPairs ==
    (pc \in {"cell13", "cell15", "ready"} /\ n_chars > seq_length) =>
        /\ Len(inputs) = n_chars - seq_length
        /\ Len(outputs) = n_chars - seq_length
        /\ Len(indeces) = n_chars - seq_length
        /\ \A j \in 0..(n_chars - seq_length - 1) :
              Cardinality({k \in DOMAIN indeces : indeces[k] = j}) = 1
        /\ \A k \in DOMAIN inputs :
              /\ inputs[k] = SubSeq(raw_text, indeces[k] + 1, indeces[k] + seq_length)
              /\ outputs[k] = raw_text[indeces[k] + seq_length + 1]

C7_Witness ==
    /\ pc = "cell13"
    /\ Len(inputs) >= 3
    /\ indeces[1] > indeces[2]
    /\ inputs[1] # inputs[2]
    /\ outputs[1] # outputs[2]
    /\ outputs[1] = raw_text[indeces[1] + seq_length + 1]

\* C8: when the corpus is no longer than L, the windowing cell produces no
\* pair and ends with an InsufficientCorpusError.
C8_InsufficientCorpusSignalled ==
    (pc = "cell9" /\ n_chars <= seq_length) =>
        /\ Len(inputs) = 0
        /\ cell_err = "InsufficientCorpusError"

\* C9: for a non-empty corpus, chars holds the distinct characters of the
\* corpus in ascending order, char_to_int maps exactly those characters and
\* int_to_char exactly 0..V-1, and each mapping undoes the other.
C9_VocabularyBijection ==
    (pc # "cell5" /\ raw_text # <<>>) =>
        /\ n_vocab = Cardinality(SetOf(raw_text))
        /\ Len(chars) = n_vocab
        /\ \A a, b \in 1..Len(chars) : a < b => chars[a] < chars[b]
        /\ DOMAIN char_to_int = SetOf(raw_text)
        /\ DOMAIN int_to_char = 0..(n_vocab - 1)
        /\ \A c \in SetOf(raw_text) :
              /\ char_to_int[c] \in 0..(n_vocab - 1)
              /\ int_to_char[char_to_int[c]] = c
        /\ \A k \in 0..(n_vocab - 1) :
              /\ int_to_char[k] \in SetOf(raw_text)
              /\ char_to_int[int_to_char[k]] = k
        /\ \A c, d \in SetOf(raw_text) : c < d => char_to_int[c] < char_to_int[d]

C9_Witness ==
    /\ pc = "cell7"
    /\ n_vocab >= 2
    /\ raw_text[1] > raw_text[Len(raw_text)]
    /\ char_to_int[raw_text[1]] = n_vocab - 1
    /\ int_to_char[0] = raw_text[Len(raw_text)]

\* C10: the vocabulary cell ends with an exception exactly when the corpus is
\* empty, the exception is then an EmptyCorpusError, and no empty vocabulary
\* is left behind.
C10_FailsOnlyOnEmptyCorpus ==
    pc = "cell7" =>
        /\ (cell_err # "none") <=> (raw_text = <<>>)
        /\ raw_text = <<>> => cell_err = "EmptyCorpusError"

\* the columns of a row that hold the active value
Active(row, on) == {v \in DOMAIN row : row[v] = on}

\* a is an array of L rows and V columns with exactly one active entry in
\* every row, and the active columns, read through int_to_char, spell w
EncodesWindow(a, on, w, L, V) ==
    /\ DOMAIN a = 0..(L - 1)
    /\ \A t \in 0..(L - 1) :
        /\ DOMAIN a[t] = 0..(V - 1)
        /\ Cardinality(Active(a[t], on)) = 1
        /\ \A v \in Active(a[t], on) : int_to_char[v] = w[t + 1]

\* C11: once the one-hot cell ran, X has shape (n_sequences, L, V), every X[i]
\* has exactly one active entry in each of its L rows and decodes through
\* int_to_char to inputs[i], and every y[i] has exactly one active entry, at
\* the index of outputs[i]; in a generate call started with a window of L
\* characters, the array x built in each step has L rows of V columns with
\* exactly one active entry per row and decodes to the current sentence.
C11_OneHotRoundTrip ==
    /\ pc \notin {"cell5", "cell7", "cell9", "cell13", "sample", "sampled"} =>
        /\ X.shape = <<n_sequences, seq_length, n_vocab>>
        /\ y.shape = <<n_sequences, n_vocab>>
        /\ DOMAIN X.data = 1..n_sequences
        /\ DOMAIN y.data = 1..n_sequences
        /\ \A s \in 1..n_sequences :
            /\ Len(inputs[s]) = seq_length
            /\ EncodesWindow(X.data[s], TRUE, inputs[s], seq_length, n_vocab)
            /\ DOMAIN y.data[s] = 0..(n_vocab - 1)
            /\ Active(y.data[s], TRUE) = {char_to_int[outputs[s]]}
    /\ (gpc = "sample" /\ Len(seed) = seq_length) =>
        /\ Len(sentence) = seq_length
        /\ EncodesWindow(x, 1, sentence, seq_length, n_vocab)

C11_Witness ==
    /\ gpc = "sample"
    /\ i >= 1
    /\ seq_length >= 2
    /\ n_vocab >= 2
    /\ Len(seed) = seq_length
    /\ sentence[1] # sentence[2]
    /\ EncodesWindow(x, 1, sentence, seq_length, n_vocab)
    /\ n_sequences >= 1
    /\ EncodesWindow(X.data[1], TRUE, inputs[1], seq_length, n_vocab)
    /\ inputs[1][1] # outputs[1]
    /\ Active(y.data[1], TRUE) = {char_to_int[outputs[1]]}

\* C12: in the epoch loop, whenever a seed has been drawn the corpus is
\* longer than L, start_index lies in [0, n-L-1] (so start_index + L <= n-1),
\* the seed is the L characters of the corpus from start_index on, all of
\* them in the vocabulary, and it stays so through both generate calls of the
\* epoch; each call is made on that seed, never meets an encoding error nor
\* a vector sample cannot draw from, and returns after all prediction_length
\* steps.  For a corpus longer than L
\* the loop never ends in an exception.
C12_PreviewSeedFits ==
    /\ pc = "preview" =>
        /\ n_chars > seq_length
        /\ start_index \in 0..(n_chars - seq_length - 1)
        /\ start_index + seq_length <= n_chars - 1
        /\ preview_seed = SubSeq(raw_text, start_index + 1, start_index + seq_length)
        /\ Len(preview_seed) = seq_length
        /\ InVocabulary(preview_seed)
        /\ gpc # "idle" =>
            /\ seed = preview_seed
            /\ prediction_length = preview_length
            /\ diversity = DiversityList[diversity_pos]
            /\ gpc # "raised"
            /\ gen_err = "none"
            /\ EncodeError(sentence, X.shape, char_to_int) = "none"
            /\ (gpc = "sample" => sample(preds, diversity) # {})
            /\ i <= prediction_length
            /\ (gpc = "returned" => i = prediction_length /\ n_predict = prediction_length)
        /\ (gpc = "idle" /\ diversity_pos >= 1) => prev_err = "none"
    /\ pc = "cell23_raised" => n_chars <= seq_length

C12_Witness ==
    /\ pc = "preview"
    /\ iteration >= 1
    /\ diversity_pos = 2
    /\ gpc = "returned"
    /\ diversity = <<6, 5>>
    /\ start_index >= 1
    /\ preview_length >= 2
    /\ i = preview_length
    /\ seed = preview_seed
    /\ sentence # seed
    /\ Len(generated) = seq_length + preview_length

====
